---- MODULE Spec2Model ----
(***************************************************************************)
(* VolaryDDNS update script (src/global/main-update.py).                   *)
(*                                                                         *)
(* One invocation is a process p of Procs.  It walks through main():       *)
(* start entry, rotate_log, get_public_ip (up to three GETs with sleeps    *)
(* in between), the comparison with the last-known-IP file, update_ddns    *)
(* (one POST, then the rewrite of the last-known-IP file) and sys.exit.    *)
(* The environment chooses the initial files, the outcome of every network *)
(* call, and whether and where a KeyboardInterrupt is delivered.           *)
(*                                                                         *)
(* Text (response bodies, file contents, IP strings) is a tuple of         *)
(* one-character strings, so that strip(), lower(), the substring test and *)
(* the regular expression of validate_ip are computed, not assumed.        *)
(* The file operations themselves (open, write, rename) are taken to       *)
(* succeed; the exceptions modelled are those of the network calls and     *)
(* the interrupt.                                                          *)
(***************************************************************************)
EXTENDS Integers, Sequences, FiniteSets, TLC

VARIABLES
    pc,          \* pc[p]: position of invocation p in the script
    attempt,     \* attempt[p]: loop variable of get_public_ip (line 44)
    ip,          \* ip[p]: main's local `ip` (line 101), Unset before
    last_ip,     \* last_ip[p]: main's local `last_ip` (line 108)
    updated,     \* updated[p]: value returned by update_ddns: "unset", "true", "false"
    exitCode,    \* exitCode[p]: the exit statuses the process ended with ({} while running)
    lastIpFile,  \* LAST_IP_FILE: NoFile or its content
    logFile,     \* LOG_FILE: [exists, size, entries]
    logOld,      \* LOG_FILE + ".old": same shape
    inflight,    \* network calls in progress: set of <<p, "GET"|"POST">>
    h,           \* h[p]: history of invocation p (observation only)
    env,         \* what has happened across invocations (observation only)
    call         \* a call of validate_ip on its own: [arg, ret]

vars == <<pc, attempt, ip, last_ip, updated, exitCode, lastIpFile, logFile,
          logOld, inflight, h, env, call>>

----------------------------------------------------------------------------
(* Program constants *)

MAX_LOG_SIZE == 1048576
\* One attempt more than range(3) makes
MaxAttemptsPlusOne == 3 + 1
\* range(3) (line 44)
MaxAttempts == 3
LastAttempt == 2
SleepSeconds == 5
ExitOk == 0
ExitFail == 1
ExitInterrupted == 130
HttpOk == 200

(* Size of the model: the number of invocation slots *)
NumProcs == 2
Procs == 1 .. NumProcs

----------------------------------------------------------------------------
(* Text *)

None == <<"None">>          \* Python's None (distinct from every text used)
Unset == <<"Unset">>        \* a local that has not been assigned yet
NoFile == <<"NoFile">>      \* the path does not name a file

Whitespace == {" ", "\n", "\t", "\r"}
AsciiDigits == {"0", "1", "2", "3", "4", "5", "6", "7", "8", "9"}
\* re's \d on a str pattern matches every Unicode decimal digit; "U+0663"
\* stands for one such character (ARABIC-INDIC DIGIT THREE).
UnicodeDigits == {"U+0663"}

RECURSIVE LStrip(_)
LStrip(s) ==
    IF s # <<>> /\ Head(s) \in Whitespace THEN LStrip(Tail(s)) ELSE s

RECURSIVE RStrip(_)
RStrip(s) ==
    IF s # <<>> /\ s[Len(s)] \in Whitespace
    THEN RStrip(SubSeq(s, 1, Len(s) - 1))
    ELSE s

\* str.strip() (lines 48 and 108)
Strip(s) == RStrip(LStrip(s))

LowerChar(c) ==
    CASE c = "O" -> "o"
      [] c = "K" -> "k"
      [] c = "U" -> "u"
      [] c = "S" -> "s"
      [] c = "T" -> "t"
      [] c = "N" -> "n"
      [] OTHER -> c

\* str.lower() (line 79)
Lower(s) == [i \in 1 .. Len(s) |-> LowerChar(s[i])]

\* `k in text` for strings (line 79)
Contains(k, s) ==
    \E i \in 1 .. (Len(s) - Len(k) + 1) : SubSeq(s, i, i + Len(k) - 1) = k

\* The groups of s between the dots, left to right.
RECURSIVE SplitDots(_, _, _)
SplitDots(s, cur, acc) ==
    IF s = <<>> THEN Append(acc, cur)
    ELSE IF Head(s) = "." THEN SplitDots(Tail(s), <<>>, Append(acc, cur))
    ELSE SplitDots(Tail(s), Append(cur, Head(s)), acc)

IsDigit(c) == c \in AsciiDigits \cup UnicodeDigits

\* \d{1,3}
DigitGroup(g) == Len(g) \in 1 .. 3 /\ \A i \in 1 .. Len(g) : IsDigit(g[i])

\* \d{1,3}(\.\d{1,3}){3} over the whole of s
DottedQuad(s) ==
    LET gs == SplitDots(s, <<>>, <<>>)
    IN  Len(gs) = 4 /\ \A i \in 1 .. 4 : DigitGroup(gs[i])

\* validate_ip: pattern.match anchors at the start; `$` matches at the end
\* of the string and also just before a newline that ends the string.
ValidateIp(s) ==
    \/ DottedQuad(s)
    \/ s # <<>> /\ s[Len(s)] = "\n" /\ DottedQuad(SubSeq(s, 1, Len(s) - 1))

----------------------------------------------------------------------------
(* Exceptions *)

\* issubclass(exc, cls) for the classes that occur (Python's hierarchy)
IsSubclass(exc, cls) ==
    \/ cls = "BaseException"
    \/ exc = cls
    \/ cls = "Exception" /\ exc \in {"RequestException", "OSError", "ValueError"}

\* A bare `except:`, which also catches KeyboardInterrupt and SystemExit
GetHandlerBare == "BaseException"

\* A handler for one exception class that the GET never raises
GetHandlerNarrow == "ValueError"

\* `except Exception` of get_public_ip (line 56)
GetHandler == "Exception"
\* A handler that names one exception class too narrowly
PostHandlerNarrow == "ValueError"

\* `except Exception` of update_ddns (line 92)
PostHandler == "Exception"
\* `except KeyboardInterrupt` around main() (line 123)
MainHandler == "KeyboardInterrupt"

Catches(handler, exc) == IsSubclass(exc, handler)

----------------------------------------------------------------------------
(* The log *)

\* An entry: its level, the fixed text of its message and the IP or body
\* that the message quotes (the detail of an exception is left out)
LogEntry(level, text, arg) == [level |-> level, text |-> text, arg |-> arg]

\* Bytes of "[YYYY-MM-DD HH:MM:SS] [LEVEL] message" and the line end (line 30)
EntryLen(e) == 22 + Len(e.level) + 3 + Len(e.text) + Len(e.arg) + 1

\* f"Attempt {attempt+1}: " (lines 53, 55, 57)
AttemptPrefix(a) ==
    CASE a = 0 -> "Attempt 1: "
      [] a = 1 -> "Attempt 2: "
      [] a = 2 -> "Attempt 3: "
      [] OTHER -> "Attempt 4: "

\* f"{response.status_code}" (line 55)
StatusText(st) ==
    CASE st = 200 -> "200"
      [] st = 400 -> "400"
      [] OTHER -> "500"

NoLog == [exists |-> FALSE, size |-> 0, entries |-> <<>>]

\* log_message: open(LOG_FILE, "a") creates the file when it is missing
LogMessage(f, e) ==
    [exists |-> TRUE, size |-> f.size + EntryLen(e), entries |-> Append(f.entries, e)]

RECURSIVE LogAll(_, _)
LogAll(f, es) == IF es = <<>> THEN f ELSE LogAll(LogMessage(f, Head(es)), Tail(es))

\* The condition of rotate_log (line 39)
NeedsRotation(f) == f.exists /\ f.size > MAX_LOG_SIZE

----------------------------------------------------------------------------
(* Decisions of the script *)

\* Sleeping after every attempt, the last one included
ShouldSleepAlways(a) == a < MaxAttempts

\* `if attempt < 2` (line 58)
ShouldSleep(a) == a < LastAttempt

\* A test for the empty string only, which lets None through
NotIpEmptyOnly(x) == x = <<>>

\* `if not ip` (line 102): None and the empty string are falsy
\* The check of line 102 left out
NotIpNever(x) == FALSE

NotIp(x) == x = None \/ x = <<>>

\* The comparison of line 109 left out: every resolved IP is sent
SameAsLastNever(x, content) == FALSE

\* The comparison without the strip()
SameAsLastRaw(x, content) == x = content

\* The comparison with its sense inverted
SameAsLastInverted(x, content) == x # Strip(content)

\* `ip == last_ip` with last_ip = f.read().strip() (lines 108-109)
SameAsLast(x, content) == x = Strip(content)

\* response.ok: raise_for_status() raises for 400 <= status < 600
ResponseOk(status) == ~(400 <= status /\ status < 600)

SuccessKeywords ==
    { <<"s", "u", "c", "c", "e", "s", "s">>,
      <<"u", "p", "d", "a", "t", "e", "d">>,
      <<"o", "k">> }

\* Success decided by the status alone
UpdateSucceededStatusOnly(status, body) == ResponseOk(status)

\* The success condition of update_ddns (line 79)
UpdateSucceeded(status, body) ==
    ResponseOk(status) /\ \E k \in SuccessKeywords : Contains(k, Lower(body))

\* Opening without truncation (mode "r+" or "a" in place of "w")
OpenNoTruncate(content) == IF content = NoFile THEN <<>> ELSE content

\* open(LAST_IP_FILE, "w") (line 81): the file is created or truncated
OpenForWrite(content) == <<>>

\* A write that leaves the file as open() left it
WriteIpNothing(content, x) == content

\* f.write(ip) through the handle opened on line 81: the text goes to
\* offset 0 of the file, over whatever the file holds there
WriteIp(content, x) == x \o SubSeq(content, Len(x) + 1, Len(content))

\* Exit code 0 whatever update_ddns returned
UpdateExitAlwaysOk(ok) == ExitOk

\* sys.exit codes of main after update_ddns (lines 113-118)
UpdateExit(ok) == IF ok THEN ExitOk ELSE ExitFail

----------------------------------------------------------------------------
(* The environment *)

IP_A == <<"1", ".", "2", ".", "3", ".", "4">>
IP_B == <<"5", ".", "6", ".", "7", ".", "8">>

\* What LAST_IP_FILE may hold when an invocation starts
InitialLastIp ==
    { NoFile, IP_A, IP_B, IP_A \o <<"\n">>, <<>> }

\* What the IP-echo service may answer
GetBodies ==
    { IP_A, <<" ">> \o IP_B \o <<"\n">>, <<"1", ".", "2", ".", "3">>, <<>> }

Response(status, body) == [kind |-> "response", status |-> status, body |-> body, exc |-> ""]
Failure(exc) == [kind |-> "exception", status |-> 0, body |-> <<>>, exc |-> exc]

GetOutcomes ==
    {Response(HttpOk, b) : b \in GetBodies}
        \cup {Response(500, IP_A), Failure("RequestException")}

PostBodies ==
    { <<"U", "p", "d", "a", "t", "e", "d", " ", "O", "K">>,
      <<"d", "e", "n", "i", "e", "d">>,
      <<"b", "a", "d", " ", "t", "o", "k", "e", "n">> }

PostOutcomes ==
    {Response(st, b) : st \in {HttpOk, 201, 400}, b \in PostBodies}
        \cup {Failure("RequestException")}

InitialLogs ==
    {NoLog} \cup {[exists |-> TRUE, size |-> n, entries |-> <<>>] :
                    n \in {0, MAX_LOG_SIZE, MAX_LOG_SIZE + 1}}

InitialOldLogs == {NoLog, [exists |-> TRUE, size |-> MAX_LOG_SIZE + 1, entries |-> <<>>]}

----------------------------------------------------------------------------
(* State *)

NewHistory(file, log) ==
    [ logAtStart |-> log,        \* LOG_FILE when the invocation started
      faulted |-> {},            \* file operations that failed
      fileAtStart |-> file,      \* LAST_IP_FILE when the invocation started
      rotated |-> FALSE,         \* rotate_log has returned
      getsSent |-> 0,            \* GET requests issued
      gets |-> <<>>,             \* outcomes of the GETs, in order
      sleeps |-> <<>>,           \* time.sleep calls: seconds and the attempt they follow
      resolved |-> FALSE,        \* get_public_ip has returned
      reads |-> 0,               \* reads of LAST_IP_FILE
      fileAtCompare |-> Unset,   \* what the isfile/read of lines 106-108 saw
      posts |-> <<>>,            \* payload ip of each POST issued
      postReply |-> <<>>,        \* outcomes of the POSTs
      interruptedAt |-> "",      \* where a KeyboardInterrupt was raised
      absorbed |-> FALSE,        \* an inner handler caught the interrupt
      raised |-> FALSE ]         \* an exception left main uncaught

\* Nothing has happened yet: no update accepted, no write by the program
NewEnv ==
    [ runs |-> 1,          \* invocations started so far
      accepted |-> None,   \* ip of the last POST whose reply met the success condition
      acceptedBy |-> 0,    \* the invocation that got that reply
      written |-> FALSE,   \* the program has opened LAST_IP_FILE for writing
      lastWriter |-> 0,    \* the invocation whose f.write came last
      lastOk |-> None,     \* ip of the last update_ddns that returned True
      lastOkRun |-> 0,     \* the number of the invocation that made it
      diverged |-> FALSE,  \* an invocation has since resolved another IP
      retry |-> {} ]       \* IPs whose update failed and has not been sent again

\* No call of validate_ip on its own is being looked at
NoCall == [arg |-> <<>>, ret |-> "none"]

Running(p) == pc[p] \notin {"idle", "exit"}

InMain(p) == pc[p] \notin {"idle", "exit", "h_interrupt"}

Init ==
    /\ pc = [p \in Procs |-> IF p = 1 THEN "m_start" ELSE "idle"]
    /\ attempt = [p \in Procs |-> 0]
    /\ ip = [p \in Procs |-> Unset]
    /\ last_ip = [p \in Procs |-> Unset]
    /\ updated = [p \in Procs |-> "unset"]
    /\ exitCode = [p \in Procs |-> {}]
    /\ lastIpFile \in InitialLastIp
    /\ logFile \in InitialLogs
    /\ logOld \in InitialOldLogs
    /\ inflight = {}
    /\ h = [p \in Procs |-> NewHistory(lastIpFile, logFile)]
    /\ env = NewEnv
    /\ call = NoCall

----------------------------------------------------------------------------
(* Steps shared by several actions *)

\* sys.exit(code), or the interpreter ending the process
Exit(p, code) ==
    /\ pc' = [pc EXCEPT ![p] = "exit"]
    /\ exitCode' = [exitCode EXCEPT ![p] = @ \cup {code}]

\* An exception that no handler inside main caught reaches line 123; one
\* that line 123 does not catch ends the interpreter with a traceback and
\* exit status 1.
Propagate(p, exc, hist) ==
    IF Catches(MainHandler, exc)
    THEN /\ pc' = [pc EXCEPT ![p] = "h_interrupt"]
         /\ h' = [h EXCEPT ![p] = hist]
         /\ UNCHANGED exitCode
    ELSE /\ Exit(p, 1)
         /\ h' = [h EXCEPT ![p] = [hist EXCEPT !.raised = TRUE]]

\* The `for attempt in range(3)` header (line 44) taking its next value, or
\* the loop ending and `return None` (line 60)
AdvanceLoop(p, hist) ==
    IF attempt[p] + 1 < MaxAttempts
    THEN /\ attempt' = [attempt EXCEPT ![p] = @ + 1]
         /\ pc' = [pc EXCEPT ![p] = "g_send"]
         /\ h' = [h EXCEPT ![p] = hist]
         /\ UNCHANGED ip
    ELSE /\ ip' = [ip EXCEPT ![p] = None]
         /\ pc' = [pc EXCEPT ![p] = "m_check"]
         /\ h' = [h EXCEPT ![p] = [hist EXCEPT !.resolved = TRUE]]
         /\ UNCHANGED attempt

\* A failed attempt: the warning (lines 53, 55, 57), then lines 58-59
FailedAttempt(p, hist, entry) ==
    /\ logFile' = LogMessage(logFile, entry)
    /\ IF ShouldSleep(attempt[p])
       THEN /\ pc' = [pc EXCEPT ![p] = "g_sleep"]
            /\ h' = [h EXCEPT ![p] =
                       [hist EXCEPT !.sleeps =
                           Append(@, [seconds |-> SleepSeconds, after |-> attempt[p] + 1])]]
            /\ UNCHANGED <<attempt, ip>>
       ELSE AdvanceLoop(p, hist)

\* update_ddns returning False after its error entry (lines 90-91, 93-94)
UpdateFailed(p, hist, entries) ==
    /\ logFile' = LogAll(logFile, entries)
    /\ updated' = [updated EXCEPT ![p] = "false"]
    /\ pc' = [pc EXCEPT ![p] = "m_finish"]
    /\ h' = [h EXCEPT ![p] = hist]

----------------------------------------------------------------------------
(* main, lines 96-99 *)

Start(p) ==
    /\ pc[p] = "m_start"
    /\ logFile' = LogMessage(logFile,
                     LogEntry("INFO", "Starting VolaryDDNS update process", <<>>))
    /\ pc' = [pc EXCEPT ![p] = "m_rotate"]
    /\ UNCHANGED <<attempt, ip, last_ip, updated, exitCode, lastIpFile, logOld,
                   inflight, h>>
    /\ UNCHANGED <<env, call>>

\* rotate_log (lines 38-41), then get_public_ip is entered
RotateLog(p) ==
    /\ pc[p] = "m_rotate"
    /\ IF NeedsRotation(logFile)
       THEN /\ logOld' = logFile
            /\ logFile' = LogMessage(NoLog,
                             LogEntry("INFO", "Log file rotated due to size limit", <<>>))
       ELSE UNCHANGED <<logFile, logOld>>
    /\ attempt' = [attempt EXCEPT ![p] = 0]
    /\ pc' = [pc EXCEPT ![p] = "g_send"]
    /\ h' = [h EXCEPT ![p].rotated = TRUE]
    /\ UNCHANGED <<ip, last_ip, updated, exitCode, lastIpFile, inflight>>
    /\ UNCHANGED <<env, call>>

----------------------------------------------------------------------------
(* get_public_ip, lines 43-60 *)

\* requests.get is called (line 46)
GetSend(p) ==
    /\ pc[p] = "g_send"
    /\ inflight' = inflight \cup {<<p, "GET">>}
    /\ h' = [h EXCEPT ![p].getsSent = @ + 1]
    /\ pc' = [pc EXCEPT ![p] = "g_wait"]
    /\ UNCHANGED <<attempt, ip, last_ip, updated, exitCode, lastIpFile, logFile, logOld>>
    /\ UNCHANGED <<env, call>>

\* requests.get returns or raises (lines 46-59)
GetReply(p) ==
    /\ pc[p] = "g_wait"
    /\ inflight' = inflight \ {<<p, "GET">>}
    /\ \E o \in GetOutcomes :
         LET hist == [h[p] EXCEPT !.gets = Append(@, o)]
             text == Strip(o.body)
         IN  IF o.kind = "exception"
             THEN IF Catches(GetHandler, o.exc)
                  THEN /\ FailedAttempt(p, hist,
                             LogEntry("WARN", AttemptPrefix(attempt[p]) \o "Failed to retrieve IP: ", <<>>))
                       /\ UNCHANGED <<exitCode, env>>
                  ELSE /\ Propagate(p, o.exc, hist)
                       /\ UNCHANGED <<attempt, ip, logFile, env>>
             ELSE IF o.status = HttpOk
             THEN IF ValidateIp(text)
                  THEN /\ logFile' = LogMessage(logFile,
                             LogEntry("INFO", "Successfully retrieved IP address: ", text))
                       /\ ip' = [ip EXCEPT ![p] = text]
                       /\ pc' = [pc EXCEPT ![p] = "m_check"]
                       /\ h' = [h EXCEPT ![p] = [hist EXCEPT !.resolved = TRUE]]
                       /\ env' = [env EXCEPT !.diverged = @ \/ text # env.lastOk]
                       /\ UNCHANGED <<attempt, exitCode>>
                  ELSE /\ FailedAttempt(p, hist,
                             LogEntry("WARN", AttemptPrefix(attempt[p]) \o "Invalid IP format: ''", text))
                       /\ UNCHANGED <<exitCode, env>>
             ELSE /\ FailedAttempt(p, hist,
                        LogEntry("WARN",
                            AttemptPrefix(attempt[p]) \o "HTTP error " \o StatusText(o.status),
                            <<>>))
                  /\ UNCHANGED <<exitCode, env>>
    /\ UNCHANGED <<last_ip, updated, lastIpFile, logOld, call>>

\* time.sleep(5) returns (line 59)
Sleep(p) ==
    /\ pc[p] = "g_sleep"
    /\ AdvanceLoop(p, h[p])
    /\ UNCHANGED <<last_ip, updated, exitCode, lastIpFile, logFile, logOld, inflight>>
    /\ UNCHANGED <<env, call>>

----------------------------------------------------------------------------
(* main, lines 101-111 *)

CheckIp(p) ==
    /\ pc[p] = "m_check"
    /\ IF NotIp(ip[p])
       THEN /\ logFile' = LogMessage(logFile,
                 LogEntry("ERROR", "Failed to get valid public IP after 3 attempts", <<>>))
            /\ Exit(p, ExitFail)
       ELSE /\ pc' = [pc EXCEPT ![p] = "m_compare"]
            /\ UNCHANGED <<logFile, exitCode>>
    /\ UNCHANGED <<attempt, ip, last_ip, updated, lastIpFile, logOld, inflight, h>>
    /\ UNCHANGED <<env, call>>

Compare(p) ==
    /\ pc[p] = "m_compare"
    /\ IF lastIpFile # NoFile
       THEN /\ last_ip' = [last_ip EXCEPT ![p] = Strip(lastIpFile)]
            /\ h' = [h EXCEPT ![p] =
                       [@ EXCEPT !.reads = @ + 1, !.fileAtCompare = lastIpFile]]
            /\ IF SameAsLast(ip[p], lastIpFile)
               THEN /\ logFile' = LogMessage(logFile,
                         LogEntry("INFO", "IP address unchanged (), skipping update", ip[p]))
                    /\ Exit(p, ExitOk)
               ELSE /\ pc' = [pc EXCEPT ![p] = "u_send"]
                    /\ UNCHANGED <<logFile, exitCode>>
       ELSE /\ h' = [h EXCEPT ![p].fileAtCompare = NoFile]
            /\ pc' = [pc EXCEPT ![p] = "u_send"]
            /\ UNCHANGED <<last_ip, logFile, exitCode>>
    /\ UNCHANGED <<attempt, ip, updated, lastIpFile, logOld, inflight>>
    /\ UNCHANGED <<env, call>>

----------------------------------------------------------------------------
(* update_ddns, lines 67-94 *)

\* requests.post is called with the payload (lines 68-77)
PostSend(p) ==
    /\ pc[p] = "u_send"
    /\ inflight' = inflight \cup {<<p, "POST">>}
    /\ h' = [h EXCEPT ![p].posts = Append(@, ip[p])]
    /\ env' = [env EXCEPT !.retry = @ \ {ip[p]}]
    /\ pc' = [pc EXCEPT ![p] = "u_wait"]
    /\ UNCHANGED <<attempt, ip, last_ip, updated, exitCode, lastIpFile, logFile, logOld, call>>

\* requests.post returns or raises (lines 77-80, 84-94).  The bodies of
\* PostBodies are not JSON, so error_msg is response.text (line 89).
PostReply(p) ==
    /\ pc[p] = "u_wait"
    /\ inflight' = inflight \ {<<p, "POST">>}
    /\ \E o \in PostOutcomes :
         LET hist == [h[p] EXCEPT !.postReply = Append(@, o)]
             debug == LogEntry("DEBUG", "API Response: ", o.body)
         IN  IF o.kind = "exception"
             THEN IF Catches(PostHandler, o.exc)
                  THEN /\ UpdateFailed(p, hist,
                             <<LogEntry("ERROR", "API request exception: ", <<>>)>>)
                       /\ env' = [env EXCEPT !.retry = @ \cup {ip[p]}]
                       /\ UNCHANGED exitCode
                  ELSE /\ Propagate(p, o.exc, hist)
                       /\ UNCHANGED <<updated, logFile, env>>
             ELSE IF UpdateSucceeded(o.status, o.body)
             THEN /\ logFile' = LogAll(logFile,
                        <<debug, LogEntry("INFO", "DNS record updated successfully", <<>>)>>)
                  /\ pc' = [pc EXCEPT ![p] = "u_open"]
                  /\ h' = [h EXCEPT ![p] = hist]
                  /\ env' = [env EXCEPT !.accepted = ip[p], !.acceptedBy = p]
                  /\ UNCHANGED <<updated, exitCode>>
             ELSE /\ UpdateFailed(p, hist,
                        <<debug, LogEntry("ERROR", "API request failed: ", o.body)>>)
                  /\ env' = [env EXCEPT !.retry = @ \cup {ip[p]}]
                  /\ UNCHANGED exitCode
    /\ UNCHANGED <<attempt, ip, last_ip, lastIpFile, logOld, call>>

\* open(LAST_IP_FILE, "w") (line 81)
OpenLastIp(p) ==
    /\ pc[p] = "u_open"
    /\ lastIpFile' = OpenForWrite(lastIpFile)
    /\ env' = [env EXCEPT !.written = TRUE]
    /\ pc' = [pc EXCEPT ![p] = "u_write"]
    /\ UNCHANGED <<attempt, ip, last_ip, updated, exitCode, logFile, logOld, inflight, h, call>>

\* f.write(ip), the file is closed, return True (lines 82-83)
WriteLastIp(p) ==
    /\ pc[p] = "u_write"
    /\ lastIpFile' = WriteIp(lastIpFile, ip[p])
    /\ updated' = [updated EXCEPT ![p] = "true"]
    /\ env' = [env EXCEPT !.lastWriter = p, !.lastOk = ip[p],
                           !.lastOkRun = env.runs, !.diverged = FALSE]
    /\ pc' = [pc EXCEPT ![p] = "m_finish"]
    /\ UNCHANGED <<attempt, ip, last_ip, exitCode, logFile, logOld, inflight, h, call>>

----------------------------------------------------------------------------
(* main, lines 113-118 *)

Finish(p) ==
    /\ pc[p] = "m_finish"
    /\ logFile' = LogMessage(logFile,
                     IF updated[p] = "true"
                     THEN LogEntry("INFO", "IP successfully updated to ", ip[p])
                     ELSE LogEntry("ERROR", "Failed to update DDNS", <<>>))
    /\ Exit(p, UpdateExit(updated[p] = "true"))
    /\ UNCHANGED <<attempt, ip, last_ip, updated, lastIpFile, logOld, inflight, h>>
    /\ UNCHANGED <<env, call>>

----------------------------------------------------------------------------
(* KeyboardInterrupt, lines 120-125 *)

\* The positions inside the try block of get_public_ip (lines 45-55)
GetTry == {"g_send", "g_wait"}

\* The positions inside the try block of update_ddns (lines 76-91)
PostTry == {"u_send", "u_wait", "u_open", "u_write"}

\* SIGINT arrives while main is executing: Python raises KeyboardInterrupt
\* at the current position; a network call in progress is abandoned.
Interrupt(p) ==
    /\ InMain(p)
    /\ h[p].interruptedAt = ""
    /\ inflight' = inflight \ {<<p, "GET">>, <<p, "POST">>}
    /\ LET hist == [h[p] EXCEPT !.interruptedAt = pc[p]]
           swallowed == [hist EXCEPT !.absorbed = TRUE]
       IN  IF pc[p] \in GetTry /\ Catches(GetHandler, "KeyboardInterrupt")
           THEN /\ FailedAttempt(p, swallowed,
                      LogEntry("WARN", AttemptPrefix(attempt[p]) \o "Failed to retrieve IP: ", <<>>))
                /\ UNCHANGED <<updated, exitCode>>
           ELSE IF pc[p] \in PostTry /\ Catches(PostHandler, "KeyboardInterrupt")
           THEN /\ UpdateFailed(p, swallowed,
                      <<LogEntry("ERROR", "API request exception: ", <<>>)>>)
                /\ UNCHANGED <<attempt, ip, exitCode>>
           ELSE /\ Propagate(p, "KeyboardInterrupt", hist)
                /\ UNCHANGED <<attempt, ip, updated, logFile>>
    /\ UNCHANGED <<last_ip, lastIpFile, logOld>>
    /\ UNCHANGED <<env, call>>

\* The handler of lines 123-125
HandleInterrupt(p) ==
    /\ pc[p] = "h_interrupt"
    /\ logFile' = LogMessage(logFile, LogEntry("ERROR", "Script interrupted", <<>>))
    /\ Exit(p, ExitInterrupted)
    /\ UNCHANGED <<attempt, ip, last_ip, updated, lastIpFile, logOld, inflight, h>>
    /\ UNCHANGED <<env, call>>

----------------------------------------------------------------------------
(* One invocation from every initial state of the files *)

MainStep(p) ==
    \/ Start(p)
    \/ RotateLog(p)
    \/ GetSend(p)
    \/ GetReply(p)
    \/ Sleep(p)
    \/ CheckIp(p)
    \/ Compare(p)
    \/ PostSend(p)
    \/ PostReply(p)
    \/ OpenLastIp(p)
    \/ WriteLastIp(p)
    \/ Finish(p)

Next ==
    \E p \in Procs :
        \/ MainStep(p)
        \/ Interrupt(p)
        \/ HandleInterrupt(p)

\* The invocation in every environment, interrupts included
Spec == Init /\ [][Next]_vars

NextNoInterrupt == \E p \in Procs : MainStep(p)

\* The invocation when no SIGINT is delivered to it
SpecNoInterrupt == Init /\ [][NextNoInterrupt]_vars

\* The script is sequential code and every network call returns or raises
\* within its timeout (line 26), so a step that can be taken is taken.
FairSpec == Spec /\ WF_vars(Next)

----------------------------------------------------------------------------
(* File operations that fail: each raises OSError where it is called *)

\* The positions of main and of the handler of line 123 whose next statement
\* is a log_message outside every try block (lines 97, 116, 118, 124)
LogOutsideTry == {"m_start", "m_finish", "h_interrupt"}

Faulted(p, op) == [h[p] EXCEPT !.faulted = @ \cup {op}]

\* open(LOG_FILE, "a") or f.write of log_message raises (lines 33-34)
LogAppendFails(p) ==
    /\ pc[p] \in LogOutsideTry
    /\ Propagate(p, "OSError", Faulted(p, "append"))
    /\ UNCHANGED <<attempt, ip, last_ip, updated, lastIpFile, logFile, logOld,
                   inflight, env, call>>

\* os.rename of rotate_log raises (line 40); nothing around it catches
RenameFails(p) ==
    /\ pc[p] = "m_rotate"
    /\ NeedsRotation(logFile)
    /\ Propagate(p, "OSError", Faulted(p, "rename"))
    /\ UNCHANGED <<attempt, ip, last_ip, updated, lastIpFile, logFile, logOld,
                   inflight, env, call>>

\* open(LAST_IP_FILE, "r") or f.read of main raises (lines 107-108)
ReadFails(p) ==
    /\ pc[p] = "m_compare"
    /\ lastIpFile # NoFile
    /\ Propagate(p, "OSError", Faulted(p, "read"))
    /\ UNCHANGED <<attempt, ip, last_ip, updated, lastIpFile, logFile, logOld,
                   inflight, env, call>>

\* open(LAST_IP_FILE, "w") of update_ddns raises (line 81), inside the try
\* block of lines 76-94
WriteFails(p) ==
    /\ pc[p] = "u_open"
    /\ IF Catches(PostHandler, "OSError")
       THEN /\ UpdateFailed(p, Faulted(p, "write"),
                  <<LogEntry("ERROR", "API request exception: ", <<>>)>>)
            /\ env' = [env EXCEPT !.retry = @ \cup {ip[p]}]
            /\ UNCHANGED exitCode
       ELSE /\ Propagate(p, "OSError", Faulted(p, "write"))
            /\ UNCHANGED <<updated, logFile, env>>
    /\ UNCHANGED <<attempt, ip, last_ip, lastIpFile, logOld, inflight, call>>

NextFaults ==
    \E p \in Procs :
        \/ MainStep(p)
        \/ Interrupt(p)
        \/ HandleInterrupt(p)
        \/ LogAppendFails(p)
        \/ RenameFails(p)
        \/ ReadFails(p)
        \/ WriteFails(p)

\* The invocation when file operations may fail as well
SpecFaults == Init /\ [][NextFaults]_vars

----------------------------------------------------------------------------
(* validate_ip on its own, lines 62-65 *)

\* The longest argument built from ValidateAlphabet
MaxLen == 8

\* A digit, the separator and the character `$` is lenient about
ValidateAlphabet == {"1", ".", "\n"}

\* Arguments that ValidateAlphabet does not reach: other digits, groups of
\* four digits, other trailing and leading characters, letters
ValidateExtras ==
    { IP_A, IP_B, IP_A \o <<"\n">>, IP_A \o <<"\n", "\n">>, IP_A \o <<" ">>,
      <<" ">> \o IP_A, <<"\n">> \o IP_A, IP_A \o <<"\r", "\n">>,
      <<"9", "9", "9", ".", "9", "9", "9", ".", "9", "9", "9", ".", "9", "9", "9">>,
      <<"1", "2", "3", "4", ".", "1", ".", "1", ".", "1">>,
      <<"1", ".", "2", ".", "3", ".", "U+0663">>,
      <<"a", ".", "b", ".", "c", ".", "d">>,
      <<"1", ".", "2", ".", "3", ".", "4", ".", "5">>,
      <<"1", ".", "2", ".", "3", ".", "4", "x">> }

ValidateInputs ==
    UNION {[1 .. n -> ValidateAlphabet] : n \in 0 .. MaxLen} \cup ValidateExtras

\* No invocation runs; one argument for validate_ip is chosen
InitValidate ==
    /\ pc = [p \in Procs |-> "idle"]
    /\ attempt = [p \in Procs |-> 0]
    /\ ip = [p \in Procs |-> Unset]
    /\ last_ip = [p \in Procs |-> Unset]
    /\ updated = [p \in Procs |-> "unset"]
    /\ exitCode = [p \in Procs |-> {}]
    /\ lastIpFile = NoFile
    /\ logFile = NoLog
    /\ logOld = NoLog
    /\ inflight = {}
    /\ h = [p \in Procs |-> NewHistory(lastIpFile, logFile)]
    /\ env = NewEnv
    /\ \E s \in ValidateInputs : call = [arg |-> s, ret |-> "none"]

\* validate_ip(call.arg) returns
ValidateCall ==
    /\ call.ret = "none"
    /\ call' = [call EXCEPT !.ret = IF ValidateIp(call.arg) THEN "true" ELSE "false"]
    /\ UNCHANGED <<pc, attempt, ip, last_ip, updated, exitCode, lastIpFile, logFile,
                   logOld, inflight, h, env>>

NextValidate == ValidateCall

SpecValidate == InitValidate /\ [][NextValidate]_vars

----------------------------------------------------------------------------
(* Invocations one after another: the scheduler (cron, a timer) starts the
   script again once the previous invocation has ended *)

\* The number of invocations in a sequence
MaxRuns == 2

\* A new process runs main from line 96.  LAST_IP_FILE is as the earlier
\* invocations left it.  Of the log file main reads only whether it exceeds
\* MAX_LOG_SIZE (line 39), and between two invocations the operator may have
\* moved or emptied it, so the new invocation finds any log files of
\* InitialLogs and InitialOldLogs.
StartAgain(p, limit) ==
    /\ \A q \in Procs : ~Running(q)
    /\ pc[p] = "exit"
    /\ env.runs < limit
    /\ pc' = [pc EXCEPT ![p] = "m_start"]
    /\ attempt' = [attempt EXCEPT ![p] = 0]
    /\ ip' = [ip EXCEPT ![p] = Unset]
    /\ last_ip' = [last_ip EXCEPT ![p] = Unset]
    /\ updated' = [updated EXCEPT ![p] = "unset"]
    /\ exitCode' = [exitCode EXCEPT ![p] = {}]
    /\ logFile' \in InitialLogs
    /\ logOld' \in InitialOldLogs
    /\ h' = [h EXCEPT ![p] = NewHistory(lastIpFile, logFile')]
    /\ env' = [env EXCEPT !.runs = @ + 1]
    /\ UNCHANGED <<lastIpFile, inflight, call>>

Launch(p) == StartAgain(p, MaxRuns)

NextSeq ==
    \E p \in Procs :
        \/ MainStep(p)
        \/ Launch(p)

\* Non-overlapping invocations to which no SIGINT is delivered
SpecSeq == Init /\ [][NextSeq]_vars

NextSeqInterrupt ==
    \E p \in Procs :
        \/ MainStep(p)
        \/ Interrupt(p)
        \/ HandleInterrupt(p)
        \/ Launch(p)

\* Non-overlapping invocations, interrupted ones included
SpecSeqInterrupt == Init /\ [][NextSeqInterrupt]_vars

----------------------------------------------------------------------------
(* Two invocations at once: the scheduler starts the script while the
   previous invocation is still running.  Nothing in the script locks
   LAST_IP_FILE or LOG_FILE. *)

Racers == {1, 2}

\* Both processes are at line 96; the IP-echo service is up
InitRace ==
    /\ pc = [p \in Procs |-> IF p \in Racers THEN "m_start" ELSE "idle"]
    /\ attempt = [p \in Procs |-> 0]
    /\ ip = [p \in Procs |-> Unset]
    /\ last_ip = [p \in Procs |-> Unset]
    /\ updated = [p \in Procs |-> "unset"]
    /\ exitCode = [p \in Procs |-> {}]
    /\ lastIpFile \in {NoFile, IP_A}
    /\ logFile = NoLog
    /\ logOld = NoLog
    /\ inflight = {}
    /\ h = [p \in Procs |-> NewHistory(lastIpFile, logFile)]
    /\ env = [NewEnv EXCEPT !.runs = Cardinality(Racers)]
    /\ call = NoCall

\* The GET of a racing invocation is answered with a valid IP at once
GetReplyValid(p) == GetReply(p) /\ h'[p].resolved /\ ip'[p] # None

\* One more invocation once the two have ended
LaunchAfterRace(p) == StartAgain(p, Cardinality(Racers) + 1)

NextRace ==
    \E p \in Procs :
        \/ Start(p)
        \/ RotateLog(p)
        \/ GetSend(p)
        \/ GetReplyValid(p)
        \/ CheckIp(p)
        \/ Compare(p)
        \/ PostSend(p)
        \/ PostReply(p)
        \/ OpenLastIp(p)
        \/ WriteLastIp(p)
        \/ Finish(p)
        \/ LaunchAfterRace(p)

\* Two overlapping invocations whose steps interleave in every order, and
\* one invocation after them
SpecRace == InitRace /\ [][NextRace]_vars

----------------------------------------------------------------------------
(* Vocabulary of the properties *)

Exited(p) == pc[p] = "exit"

Interrupted(p) == h[p].interruptedAt # ""

\* The attempt got HTTP 200 and a body that passes validate_ip once stripped
GoodGet(o) == o.kind = "response" /\ o.status = HttpOk /\ ValidateIp(Strip(o.body))

\* The reply meets the success condition of update_ddns
Accepted(o) == o.kind = "response" /\ UpdateSucceeded(o.status, o.body)

\* get_public_ip returned a valid IP
ResolvedValid(p) == h[p].resolved /\ ValidateIp(ip[p])

\* LAST_IP_FILE existed at the start and its trimmed content is the resolved IP
StartedEqual(p) == h[p].fileAtStart # NoFile /\ Strip(h[p].fileAtStart) = ip[p]

----------------------------------------------------------------------------
(* Properties of one invocation to which no interrupt is delivered *)

\* C1: when get_public_ip returned a valid IP x and LAST_IP_FILE was absent
\* or held (after trimming) something other than x, the invocation issues
\* exactly one POST and its payload ip is x; if the reply meets the success
\* condition, LAST_IP_FILE then holds exactly x and the exit code is 0.
C1_UpdateOnChange ==
    \A p \in Procs :
        (ResolvedValid(p) /\ ~StartedEqual(p)) =>
            /\ \A i \in 1 .. Len(h[p].posts) : i = 1 /\ h[p].posts[i] = ip[p]
            /\ Exited(p) =>
                 /\ h[p].posts = <<ip[p]>>
                 /\ Len(h[p].postReply) = 1
                 /\ Accepted(h[p].postReply[1]) =>
                      lastIpFile = ip[p] /\ exitCode[p] = {ExitOk}

\* A shorter new IP replaced a longer old content and the run ended with 0.
C1_Witness ==
    /\ Exited(1)
    /\ h[1].fileAtStart = IP_A \o <<"\n">>
    /\ ip[1] = IP_B
    /\ h[1].posts = <<IP_B>>
    /\ Accepted(h[1].postReply[1])
    /\ lastIpFile = IP_B
    /\ exitCode[1] = {ExitOk}

\* C2: when LAST_IP_FILE exists and its whitespace-trimmed content equals the
\* freshly resolved IP, no POST is ever issued (update_ddns is never entered),
\* LAST_IP_FILE is left unchanged and the exit code is 0.
C2_NoUpdateWhenUnchanged ==
    \A p \in Procs :
        (ResolvedValid(p) /\ StartedEqual(p)) =>
            /\ h[p].posts = <<>>
            /\ pc[p] \in {"m_check", "m_compare", "exit"}
            /\ lastIpFile = h[p].fileAtStart
            /\ Exited(p) => exitCode[p] = {ExitOk}

\* The file held the IP followed by a newline, and the run was a no-op.
C2_Witness ==
    /\ Exited(1)
    /\ h[1].fileAtStart = IP_A \o <<"\n">>
    /\ ip[1] = IP_A
    /\ h[1].reads = 1
    /\ h[1].posts = <<>>
    /\ exitCode[1] = {ExitOk}

\* C3: when the POST is answered with an error status or a body without a
\* success keyword, or raises a transport exception, update_ddns returns
\* False and nothing is raised out of it, LAST_IP_FILE is as it was before
\* the invocation (same content, or still absent), and the exit code is 1.
C3_FailedUpdateLeavesFile ==
    \A p \in Procs :
        (h[p].postReply # <<>> /\ ~Accepted(h[p].postReply[1])) =>
            /\ updated[p] = "false"
            /\ ~h[p].raised
            /\ pc[p] \in {"m_finish", "exit"}
            /\ lastIpFile = h[p].fileAtStart
            /\ Exited(p) => exitCode[p] = {ExitFail}

\* A transport exception during the POST, with a previous record on disk.
C3_Witness ==
    /\ Exited(1)
    /\ h[1].postReply # <<>>
    /\ h[1].postReply[1].kind = "exception"
    /\ h[1].fileAtStart = IP_B
    /\ lastIpFile = IP_B
    /\ updated[1] = "false"
    /\ exitCode[1] = {ExitFail}

\* C4: when all three attempts fail (non-200, transport error or invalid
\* body), the exit code is 1, LAST_IP_FILE is never read, no POST is issued
\* and LAST_IP_FILE is not modified.
C4_NoIpNoSideEffect ==
    \A p \in Procs :
        (Len(h[p].gets) = 3 /\ \A i \in 1 .. 3 : ~GoodGet(h[p].gets[i])) =>
            /\ h[p].reads = 0
            /\ h[p].fileAtCompare = Unset
            /\ h[p].posts = <<>>
            /\ lastIpFile = h[p].fileAtStart
            /\ pc[p] \in {"m_check", "exit"}
            /\ Exited(p) => exitCode[p] = {ExitFail}

\* One failure of each kind, with a last-known-IP file on disk.
C4_Witness ==
    /\ Exited(1)
    /\ Len(h[1].gets) = 3
    /\ h[1].gets[1].kind = "exception"
    /\ h[1].gets[2].status = 500
    /\ h[1].gets[3] = Response(HttpOk, <<"1", ".", "2", ".", "3">>)
    /\ h[1].fileAtStart = IP_A
    /\ exitCode[1] = {ExitFail}

----------------------------------------------------------------------------
(* Properties of one invocation in every environment, interrupts included *)

ExitCodes == {ExitOk, ExitFail, ExitInterrupted}

\* The comparison of line 109 found the resolved IP in LAST_IP_FILE
ComparedEqual(p) ==
    /\ h[p].fileAtCompare \notin {Unset, NoFile}
    /\ Strip(h[p].fileAtCompare) = ip[p]

NoOpOrUpdated(p) == ComparedEqual(p) \/ updated[p] = "true"

NoIpOrUpdateFailed(p) == (h[p].resolved /\ ip[p] = None) \/ updated[p] = "false"

\* C5 as the claim states it: exactly one exit code of {0, 1, 130}; 0 iff the
\* resolved IP equals the last-known IP or update_ddns returned success; 1 iff
\* IP resolution returned absence or update_ddns returned failure; 130 iff
\* the run was interrupted.
C5_AsStated ==
    \A p \in Procs :
        Exited(p) =>
            /\ \E c \in ExitCodes : exitCode[p] = {c}
            /\ exitCode[p] = {ExitOk} <=> NoOpOrUpdated(p)
            /\ exitCode[p] = {ExitFail} <=> NoIpOrUpdateFailed(p)
            /\ exitCode[p] = {ExitInterrupted} <=> Interrupted(p)

C5_Rule ==
    \A p \in Procs :
        Exited(p) =>
            /\ \E c \in ExitCodes : exitCode[p] = {c}
            /\ exitCode[p] = {ExitOk} <=> (~Interrupted(p) /\ NoOpOrUpdated(p))
            /\ exitCode[p] = {ExitFail} <=> (~Interrupted(p) /\ NoIpOrUpdateFailed(p))
            /\ exitCode[p] = {ExitInterrupted} <=> Interrupted(p)

\* C5, amended: every invocation terminates, with exactly one exit code of
\* {0, 1, 130}: 130 iff the run was interrupted; 0 iff it was not interrupted
\* and the resolved IP equals the last-known IP or update_ddns returned
\* success; 1 iff it was not interrupted and IP resolution returned absence
\* or update_ddns returned failure.
C5_ExitCodes ==
    /\ []C5_Rule
    /\ \A p \in Procs : (pc[p] = "m_start") ~> Exited(p)

\* update_ddns had returned True when the interrupt arrived: exit code 130.
C5_Witness ==
    /\ Exited(1)
    /\ updated[1] = "true"
    /\ h[1].interruptedAt = "m_finish"
    /\ exitCode[1] = {ExitInterrupted}

LastLogEntry == logFile.entries[Len(logFile.entries)]

\* C6: an interrupt delivered at any point of main (during a GET, a sleep, the
\* POST, or between steps) is not taken by the retry loop or by update_ddns
\* for a failed attempt: it can be delivered at every position of main, it
\* reaches the handler of line 123, "Script interrupted" is logged at error
\* level and the exit code is 130.
C6_InterruptReachesTop ==
    \A p \in Procs :
        /\ (InMain(p) /\ ~Interrupted(p)) => ENABLED Interrupt(p)
        /\ Interrupted(p) =>
             /\ ~h[p].absorbed
             /\ pc[p] \in {"h_interrupt", "exit"}
             /\ h[p].interruptedAt \in GetTry => ip[p] = Unset
             /\ h[p].interruptedAt \in PostTry => updated[p] = "unset"
             /\ Exited(p) =>
                  /\ exitCode[p] = {ExitInterrupted}
                  /\ LastLogEntry = LogEntry("ERROR", "Script interrupted", <<>>)

\* The interrupt arrived while the second GET was in progress.
C6_Witness ==
    /\ Exited(1)
    /\ h[1].interruptedAt = "g_wait"
    /\ h[1].getsSent = 2
    /\ Len(h[1].gets) = 1
    /\ exitCode[1] = {ExitInterrupted}
    /\ LastLogEntry.text = "Script interrupted"

\* C7: get_public_ip issues at most 3 GETs and returns the IP of the first
\* attempt that yields HTTP 200 with a body passing validate_ip; no GET is
\* issued after that attempt.
C7_FirstValidWins ==
    \A p \in Procs :
        /\ h[p].getsSent <= 3
        /\ Len(h[p].gets) <= h[p].getsSent
        /\ \A i \in 1 .. Len(h[p].gets) :
             GoodGet(h[p].gets[i]) =>
                 /\ i = Len(h[p].gets)
                 /\ h[p].getsSent = i
                 /\ h[p].resolved
                 /\ ip[p] = Strip(h[p].gets[i].body)
        /\ (h[p].resolved /\ ip[p] # None) =>
             h[p].gets # <<>> /\ GoodGet(h[p].gets[Len(h[p].gets)])

\* The first answer was unusable, the second was a padded valid IP.
C7_Witness ==
    /\ Exited(1)
    /\ h[1].getsSent = 2
    /\ h[1].gets = <<Response(500, IP_A), Response(HttpOk, <<" ">> \o IP_B \o <<"\n">>)>>
    /\ ip[1] = IP_B
    /\ h[1].posts = <<IP_B>>

\* The attempts (1-based) after which line 59 is to sleep: the failed ones
\* that are not the third.
SleepsDue(p) ==
    {i \in 1 .. Len(h[p].gets) : ~GoodGet(h[p].gets[i]) /\ i < 3}

\* C8: a 5-second sleep happens exactly once after each failed attempt that
\* another attempt is to follow, never after a successful attempt and never
\* after the third attempt; every attempt but the first comes after the sleep
\* of the one before it.
C8_SleepBetweenAttempts ==
    \A p \in Procs :
        /\ h[p].sleeps =
             [i \in 1 .. Cardinality(SleepsDue(p)) |-> [seconds |-> 5, after |-> i]]
        /\ \A i \in 1 .. Len(h[p].sleeps) : h[p].sleeps[i].after \in SleepsDue(p)
        /\ h[p].getsSent > 0 => Len(h[p].sleeps) >= h[p].getsSent - 1
        /\ Len(h[p].sleeps) <= 2

\* Two failures, then a valid IP on the third attempt: two sleeps.
C8_Witness ==
    /\ Exited(1)
    /\ Len(h[1].gets) = 3
    /\ ~GoodGet(h[1].gets[1])
    /\ ~GoodGet(h[1].gets[2])
    /\ GoodGet(h[1].gets[3])
    /\ Len(h[1].sleeps) = 2
    /\ ip[1] = IP_A

\* C9: when all three attempts fail or return invalid data, in any mix of
\* non-200 status, transport exception and non-conforming body,
\* get_public_ip returns None and no exception leaves it.
C9_ExhaustedReturnsNone ==
    \A p \in Procs :
        /\ ~h[p].raised
        /\ (Len(h[p].gets) = 3 /\ \A i \in 1 .. 3 : ~GoodGet(h[p].gets[i])) =>
             /\ h[p].resolved
             /\ ip[p] = None
             /\ pc[p] \in {"m_check", "exit", "h_interrupt"}

\* Three failures of three kinds, and main holding None.
C9_Witness ==
    /\ pc[1] = "m_check"
    /\ Len(h[1].gets) = 3
    /\ h[1].gets[1].status = 500
    /\ h[1].gets[2] = Response(HttpOk, <<>>)
    /\ h[1].gets[3].kind = "exception"
    /\ ip[1] = None
    /\ ~h[1].raised

CallsInFlight(p) == {c \in inflight : c[1] = p}

\* C10: the steps of one invocation are strictly ordered: rotate_log has
\* returned before the first GET; get_public_ip has returned before
\* LAST_IP_FILE is looked at; a POST is issued only after the comparison found
\* no file or a different IP; and at most one network call is in flight.
C10_StepOrder ==
    \A p \in Procs :
        /\ h[p].getsSent > 0 => h[p].rotated
        /\ (h[p].reads > 0 \/ h[p].fileAtCompare # Unset) =>
             /\ h[p].resolved
             /\ <<p, "GET">> \notin inflight
        /\ h[p].posts # <<>> =>
             /\ h[p].fileAtCompare # Unset
             /\ h[p].fileAtCompare = NoFile \/ Strip(h[p].fileAtCompare) # ip[p]
        /\ Cardinality(CallsInFlight(p)) <= 1
        /\ <<p, "GET">> \in inflight => pc[p] = "g_wait"
        /\ <<p, "POST">> \in inflight => pc[p] = "u_wait"

\* The POST is in flight after a rotation, a resolution and a comparison
\* that found another IP on disk.
C10_Witness ==
    /\ inflight = {<<1, "POST">>}
    /\ logOld.size > MAX_LOG_SIZE
    /\ logFile.entries[1].text = "Log file rotated due to size limit"
    /\ h[1].rotated
    /\ h[1].resolved
    /\ h[1].fileAtCompare = IP_B
    /\ ip[1] = IP_A

----------------------------------------------------------------------------
(* Log rotation *)

RotationNotice == LogEntry("INFO", "Log file rotated due to size limit", <<>>)

\* The log file was larger than MAX_LOG_SIZE when invocation p started
OversizedAtStart(p) == h[p].logAtStart.exists /\ h[p].logAtStart.size > MAX_LOG_SIZE

\* C11: when the log file is larger than 1,048,576 bytes at the start of an
\* invocation, it is renamed to the .old file before any entry of this
\* invocation is appended: until rotate_log has run the log file is as it was
\* at the start, afterwards the .old file is the log file of the start, and
\* the new log file begins with the rotation notice.  main appends its start
\* entry (line 97) before rotate_log (line 99), so the start entry is in the
\* file that is renamed.
C11_AsStated ==
    \A p \in Procs :
        OversizedAtStart(p) =>
            /\ pc[p] = "m_rotate" => logFile = h[p].logAtStart
            /\ h[p].rotated =>
                  /\ logOld = h[p].logAtStart
                  /\ logFile.entries # <<>>
                  /\ logFile.entries[1] = RotationNotice

\* What the code does instead: the start entry of the invocation is the last
\* entry of the .old file and the new log file begins with the notice
C11_StartEntryInOld ==
    \E p \in Procs :
        /\ OversizedAtStart(p)
        /\ h[p].rotated
        /\ logOld.entries # <<>>
        /\ logOld.entries[Len(logOld.entries)].text = "Starting VolaryDDNS update process"
        /\ logFile.entries[1] = RotationNotice

----------------------------------------------------------------------------
(* The success condition of update_ddns *)

\* The lower-cased body contains one of the three words
HasSuccessWord(body) ==
    LET low == Lower(body)
    IN  \/ Contains(<<"s", "u", "c", "c", "e", "s", "s">>, low)
        \/ Contains(<<"u", "p", "d", "a", "t", "e", "d">>, low)
        \/ Contains(<<"o", "k">>, low)

\* The reply has a non-error status and a body with a success word
C12_Met(o) == o.kind = "response" /\ o.status < 400 /\ HasSuccessWord(o.body)

\* f.write has not happened yet although the reply was a success: the
\* invocation is between the reply and the return, or was interrupted there
BeforeReturnTrue(p) ==
    \/ pc[p] \in {"u_open", "u_write"}
    \/ h[p].interruptedAt \in {"u_open", "u_write"}

\* C12: update_ddns returns True if and only if the reply to the POST has a
\* non-error status and its lower-cased body contains "success", "updated" or
\* "ok"; with any other reply, or no reply (the request raised), it returns
\* False.
C12_SuccessIffOkAndKeyword ==
    \A p \in Procs :
        /\ updated[p] = "true" =>
              Len(h[p].postReply) = 1 /\ C12_Met(h[p].postReply[1])
        /\ updated[p] = "false" =>
              Len(h[p].postReply) = 1 /\ ~C12_Met(h[p].postReply[1])
        /\ h[p].postReply # <<>> =>
              IF C12_Met(h[p].postReply[1])
              THEN updated[p] = "true" \/ (updated[p] = "unset" /\ BeforeReturnTrue(p))
              ELSE updated[p] = "false"

\* A 201 reply whose body has "ok" only inside "token" made update_ddns
\* return True
C12_Witness ==
    /\ Exited(1)
    /\ updated[1] = "true"
    /\ h[1].postReply = <<Response(201, <<"b", "a", "d", " ", "t", "o", "k", "e", "n">>)>>
    /\ lastIpFile = ip[1]
    /\ exitCode[1] = {ExitOk}

----------------------------------------------------------------------------
(* Failures of network calls and file operations *)

\* C13: whatever network call or file operation fails (the append to the log
\* file, the rename of the log file, the read or the write of LAST_IP_FILE),
\* no exception leaves main, and after a failed rename the run goes on to
\* resolve the IP.  Only the failures inside the try blocks of
\* get_public_ip and update_ddns are caught; an OSError of os.rename, of
\* log_message or of the read of LAST_IP_FILE leaves main, and line 123 catches
\* KeyboardInterrupt only.
C13_AsStated ==
    \A p \in Procs :
        /\ ~h[p].raised
        /\ "rename" \in h[p].faulted => ~Exited(p) \/ h[p].getsSent > 0

\* The failures that are absorbed: a request that raises and a failed write
\* of LAST_IP_FILE make the call return, nothing leaves main
C13_CaughtInside ==
    \A p \in Procs :
        h[p].faulted \subseteq {"write"} => ~h[p].raised

----------------------------------------------------------------------------
(* validate_ip *)

\* s is exactly four groups of one to three digits with a dot between
\* neighbouring groups, and nothing else
FourGroups(s) ==
    \E a, b, c, d \in 1 .. 3 :
        /\ Len(s) = a + b + c + d + 3
        /\ \A i \in 1 .. Len(s) :
              IF i \in {a + 1, a + b + 2, a + b + c + 3}
              THEN s[i] = "."
              ELSE IsDigit(s[i])

\* C14: validate_ip returns true for exactly the strings that are four
\* dot-separated groups of one to three digits, and false for every other
\* string: for a string with leading or trailing characters such as a
\* newline, with another number of groups, with a group that is empty or
\* longer than three digits, or with a character that is no digit.  The `$`
\* of the pattern also matches before a newline that ends the string, so
\* validate_ip("1.2.3.4\n") is true.
C14_AsStated ==
    /\ call.ret = "true" => FourGroups(call.arg)
    /\ call.ret = "false" => ~FourGroups(call.arg)

\* What validate_ip does accept: four groups, or four groups and one final
\* newline
C14_UpToOneNewline ==
    call.ret # "none" =>
        (call.ret = "true") =
            \/ FourGroups(call.arg)
            \/ /\ call.arg # <<>>
               /\ call.arg[Len(call.arg)] = "\n"
               /\ FourGroups(SubSeq(call.arg, 1, Len(call.arg) - 1))

----------------------------------------------------------------------------
(* The POST of an invocation *)

LastGet(p) == h[p].gets[Len(h[p].gets)]

\* C18: an invocation sends at most one POST, a POST that failed included
\* (it is not sent again); the ip of its payload is the value get_public_ip
\* returned in the same invocation, the trimmed body of its last GET, which
\* is not empty and is four groups of digits; no POST carries an absent or
\* unvalidated IP.
C18_OnePostOfResolvedIp ==
    \A p \in Procs :
        /\ Len(h[p].posts) <= 1
        /\ updated[p] = "false" => Len(h[p].posts) = 1
        /\ \A i \in 1 .. Len(h[p].posts) :
              /\ h[p].resolved
              /\ h[p].posts[i] = ip[p]
              /\ h[p].posts[i] \notin {None, Unset, <<>>}
              /\ FourGroups(h[p].posts[i])
              /\ h[p].gets # <<>>
              /\ LastGet(p).kind = "response"
              /\ LastGet(p).status = HttpOk
              /\ Strip(LastGet(p).body) = h[p].posts[i]

\* The second GET answered " 5.6.7.8\n", the one POST carried 5.6.7.8 and
\* was refused, and the invocation ended with 1
C18_Witness ==
    /\ Exited(1)
    /\ Len(h[1].gets) = 2
    /\ LastGet(1).body = <<" ">> \o IP_B \o <<"\n">>
    /\ h[1].posts = <<IP_B>>
    /\ updated[1] = "false"
    /\ h[1].postReply[1].kind = "response"
    /\ exitCode[1] = {ExitFail}

----------------------------------------------------------------------------
(* Invocations one after another *)

\* The invocation running now comes after the last successful update, and
\* no invocation since has resolved another IP
SinceLastOk == env.lastOk # None /\ env.lastOkRun < env.runs /\ ~env.diverged

\* C15: with invocations that do not overlap, after an update_ddns for x
\* that succeeded, an invocation that resolves x sends no POST as long as no
\* invocation in between has resolved another IP; and while the last update
\* for x failed or was refused and no POST for x has been sent since, an
\* invocation that resolves x does not end without sending the POST.
C15_SkipAfterSuccessRetryAfterFailure ==
    \A p \in Procs :
        /\ SinceLastOk /\ ResolvedValid(p) /\ ip[p] = env.lastOk =>
              h[p].posts = <<>> /\ updated[p] = "unset"
        /\ Exited(p) /\ ResolvedValid(p) /\ ip[p] \in env.retry =>
              h[p].posts = <<ip[p]>>

\* The first invocation updated to 1.2.3.4; the second resolved 1.2.3.4,
\* sent nothing and ended with 0
C15_Witness ==
    /\ env.runs = 2
    /\ env.lastOkRun = 1
    /\ env.lastOk = IP_A
    /\ ~env.diverged
    /\ Exited(1)
    /\ ip[1] = IP_A
    /\ h[1].fileAtStart = IP_A
    /\ h[1].posts = <<>>
    /\ exitCode[1] = {ExitOk}

\* The update of the first invocation for 5.6.7.8 failed; the second
\* invocation resolved 5.6.7.8 and has sent the POST again
C15_RetrySent ==
    /\ env.runs = 2
    /\ env.lastOk = None
    /\ env.accepted = None
    /\ ip[1] = IP_B
    /\ h[1].posts = <<IP_B>>
    /\ pc[1] = "u_wait"

----------------------------------------------------------------------------
(* What LAST_IP_FILE holds between invocations *)

NoneRunning == \A p \in Procs : ~Running(p)

\* C16: after any sequence of invocations that do not overlap, interrupted
\* and failed ones included, when LAST_IP_FILE exists and the program has
\* written it, it holds the IP of the most recent update that the endpoint
\* confirmed as accepted.  update_ddns writes the file in two steps after
\* the reply (open with truncation, line 81; write, line 82): an interrupt
\* between the reply and the end of the write leaves the file empty or
\* with an older IP.
C16_AsStated ==
    NoneRunning /\ lastIpFile # NoFile /\ env.written => lastIpFile = env.accepted

\* The endpoint accepted 5.6.7.8, the invocation was interrupted after
\* open() and ended with 130, and LAST_IP_FILE is empty
C16_EmptyAfterInterrupt ==
    /\ NoneRunning
    /\ env.accepted = IP_B
    /\ h[1].interruptedAt = "u_write"
    /\ exitCode[1] = {ExitInterrupted}
    /\ lastIpFile = <<>>

\* The first invocation wrote 1.2.3.4; the endpoint accepted 5.6.7.8 from the
\* second, which was interrupted before open(): the file still says 1.2.3.4
C16_StaleAfterInterrupt ==
    /\ NoneRunning
    /\ env.runs = 2
    /\ env.lastOk = IP_A
    /\ env.accepted = IP_B
    /\ h[1].interruptedAt = "u_open"
    /\ lastIpFile = IP_A

----------------------------------------------------------------------------
(* Two invocations at once *)

\* The two racing invocations have ended and no other has been started
RaceOver == env.runs = Cardinality(Racers) /\ \A p \in Racers : Exited(p)

\* C17: two overlapping invocations that resolve different IPs race on
\* LAST_IP_FILE.  When both have ended and the file does not hold the IP the
\* endpoint accepted last, then both updates were accepted, both invocations
\* ended with 0, and the file holds the IP of the invocation that wrote
\* last, which is not the one the endpoint answered last; and an invocation
\* that finds its resolved IP in the file sends no POST and ends with 0,
\* whatever the endpoint holds.  The state itself is C17_Witness.
C17_RaceOnLastIpFile ==
    /\ RaceOver /\ env.accepted # None /\ Strip(lastIpFile) # env.accepted =>
          /\ ip[1] # ip[2]
          /\ \A p \in Racers : updated[p] = "true" /\ exitCode[p] = {ExitOk}
          /\ env.lastWriter \in Racers
          /\ env.acceptedBy \in Racers \ {env.lastWriter}
          /\ lastIpFile = ip[env.lastWriter]
          /\ env.accepted = ip[env.acceptedBy]
    /\ \A p \in Procs :
          Exited(p) /\ ResolvedValid(p) /\ h[p].fileAtCompare # NoFile
                    /\ ip[p] = Strip(h[p].fileAtCompare) =>
              h[p].posts = <<>> /\ exitCode[p] = {ExitOk}

\* Invocation 1 resolved 1.2.3.4 and invocation 2 resolved 5.6.7.8; the
\* endpoint accepted 5.6.7.8 last, invocation 1 wrote last, both ended with
\* 0.  A third invocation (process 1 again) started with 1.2.3.4 in the
\* file, resolved 1.2.3.4, sent nothing and ended with 0: the endpoint
\* keeps 5.6.7.8.
C17_Witness ==
    /\ env.runs = Cardinality(Racers) + 1
    /\ env.accepted = IP_B
    /\ env.acceptedBy = 2
    /\ env.lastWriter = 1
    /\ ip[2] = IP_B
    /\ updated[2] = "true"
    /\ exitCode[2] = {ExitOk}
    /\ h[2].fileAtStart = NoFile
    /\ h[1].fileAtStart = IP_A
    /\ lastIpFile = IP_A
    /\ Exited(1)
    /\ ip[1] = IP_A
    /\ h[1].posts = <<>>
    /\ exitCode[1] = {ExitOk}

\* The state the claim names: both ended with 0, the endpoint holds 5.6.7.8,
\* the file says 1.2.3.4
C17_BothExitedFileStale ==
    /\ RaceOver
    /\ \A p \in Racers : exitCode[p] = {ExitOk}
    /\ env.accepted = IP_B
    /\ lastIpFile = IP_A

====
